---- MODULE Spec2Model ----
(***************************************************************************)
(* State-machine model of src/src/server.js (MAL-WAKARI game server).      *)
(* One action per Socket.IO handler and per scheduled callback             *)
(* (setInterval tick of startTimer, setTimeout of startRound, the 60 s     *)
(* disuse check of createRoom).  Node runs every callback to completion,   *)
(* so each handler is one atomic action.                                   *)
(***************************************************************************)
EXTENDS Integers, Sequences, FiniteSets, TLC

\* ------------------------------------------------------------------ bounds
\* room ids a client may name
MaxRooms == 2
\* pending setTimeout(startRound) callbacks per room
MaxPending == 1
\* length of a room's waiting array that joinRoom may still extend
MaxWaiting == 1
\* how far below zero lives may be driven
MaxDebt == 1

\* ------------------------------------------------------- program constants
RoundLimit == 3
NormalLives == 5
HardLives == 3
RoomCapacity == 2
DefaultTimeLimit == 300
DefaultBaseScore == 100
PenaltyPerSec == 1
NoIdx == 0
NullLives == -100

\* --------------------------------------------------------------- universes
Sockets == {"s1", "s2"}
RoomIds == 1 .. MaxRooms
NoSock == "null"
NoMode == "null"
NoRole == "undefined"
Roles == {"A", "B"}
AnswerInputs == {"", " FLAG ", "nope"}

\* ---------------------------------------------------------------- catalog
\* A challenge definition of challenges/sample_challenges.json.  A missing
\* numeric field is 0 (falsy in JS), a missing roles/answer object is FALSE
\* / "none".
Challenge(lv, bs, tl, ro, at, av) ==
  [level |-> lv, baseScore |-> bs, timeLimitSec |-> tl, roles |-> ro,
   answer |-> [type |-> at, value |-> av]]

CatalogMixed ==
  << Challenge("Hard", 100, 60, TRUE, "exact", "flag"),
     Challenge("hard", 10, 30, TRUE, "exact", "Flag"),
     Challenge("easy", 0, 0, TRUE, "none", ""),
     Challenge("Easy", 100, 60, FALSE, "exact", "flag") >>

\* the same with a normal-level challenge
CatalogLevels ==
  << Challenge("Hard", 100, 60, TRUE, "exact", "flag"),
     Challenge("hard", 10, 30, TRUE, "exact", "Flag"),
     Challenge("normal", 100, 60, TRUE, "exact", "flag"),
     Challenge("easy", 0, 0, TRUE, "none", "") >>

\* the catalog after a failed load
CatalogEmpty == << >>

VARIABLES
  challenges,     \* the loaded catalog (1-based; JS index i is i+1 here)
  rooms,          \* roomId -> room record (partial)
  socketToRoom,   \* socketId -> roomId (partial)
  socketToRole,   \* socketId -> role (partial)
  roomTimers,     \* set of roomIds holding a registered interval handle
  intervals,      \* roomId -> number of live setInterval timers
  adapter,        \* roomId -> insertion-ordered transport membership
  connected,      \* live connections
  nextRoom,       \* next fresh room id
  pendingStart,   \* roomId -> number of pending setTimeout(startRound)
  pendingDisuse,  \* roomIds whose 60 s disuse check has not fired yet
  everJoined,     \* roomIds on which some joinRoom succeeded
  env,            \* the clients' input alphabet and the observed callbacks
  last            \* the observed callback that ran last, its ack and emits

vars == << challenges, rooms, socketToRoom, socketToRole, roomTimers,
           intervals, adapter, connected, nextRoom, pendingStart,
           pendingDisuse, everJoined, env, last >>

\* ---------------------------------------------------------------- helpers
Has(m, k) == k \in DOMAIN m
MapSet(m, k, v) == [x \in (DOMAIN m) \cup {k} |-> IF x = k THEN v ELSE m[x]]
MapDelete(m, k) == [x \in (DOMAIN m) \ {k} |-> m[x]]
SeqContains(s, x) == \E i \in 1 .. Len(s) : s[i] = x
IndexOf(s, x) ==
  IF SeqContains(s, x)
    THEN CHOOSE i \in 1 .. Len(s) : s[i] = x /\ \A j \in 1 .. (i - 1) : s[j] # x
    ELSE 0
Splice(s, i) == [j \in 1 .. (Len(s) - 1) |-> IF j < i THEN s[j] ELSE s[j + 1]]
RemoveFirst(s, x) == IF IndexOf(s, x) = 0 THEN s ELSE Splice(s, IndexOf(s, x))
RemoveAll(s, x) == SelectSeq(s, LAMBDA y : y # x)
Max(a, b) == IF a >= b THEN a ELSE b

\* A notification: broadcast to a room (sock = NoSock) or unicast to a
\* connection (room = 0); role/idx/val carry the payload that matters.
Ev(type, room, sock, role, idx, val, msg) ==
  [type |-> type, room |-> room, sock |-> sock, role |-> role,
   idx |-> idx, val |-> val, msg |-> msg]
Bcast(type, room, val) == Ev(type, room, NoSock, NoRole, NoIdx, val, "")
sys(room, msg) == Ev("system", room, NoSock, NoRole, NoIdx, 0, msg)

\* What the last callback did, when it is one of the observed callbacks.
\* arg is the remainMs of a submitAnswer or the index startRound drew.
Idle == [op |-> "other", sock |-> NoSock, room |-> 0, arg |-> 0,
         ack |-> "none", emits |-> {}]
LastArg(op, sock, room, arg, ack, emits) ==
  IF op \in env.watch
    THEN [op |-> op, sock |-> sock, room |-> room, arg |-> arg, ack |-> ack,
          emits |-> emits]
    ELSE Idle
Last(op, sock, room, ack, emits) == LastArg(op, sock, room, 0, ack, emits)

\* String.prototype.trim / toLowerCase on the answers explored
Trim(s) == IF s = " FLAG " THEN "FLAG" ELSE s
ToLower(s) ==
  CASE s = "FLAG" -> "flag"
    [] s = "Flag" -> "flag"
    [] s = "Hard" -> "hard"
    [] s = "Easy" -> "easy"
    [] s = "Normal" -> "normal"
    [] OTHER -> s
normalize(s) == Trim(s)

matchAnswer(conf, ans) ==
  IF conf.type = "none" \/ ans = "" THEN FALSE
  ELSE IF conf.type = "exact" THEN ToLower(normalize(ans)) = ToLower(conf.value)
  ELSE FALSE

NewRoom ==
  [players |-> [A |-> NoSock, B |-> NoSock],
   waiting |-> << >>,
   status |-> "waiting",
   currentIdx |-> NoIdx,
   currentBig |-> NoIdx,
   usedIndices |-> {},
   expiresAt |-> NoIdx,
   timeLimitSec |-> IF Len(challenges) > 0 /\ challenges[1].timeLimitSec # 0
                      THEN challenges[1].timeLimitSec ELSE DefaultTimeLimit,
   round |-> 0,
   cumulativeScore |-> 0,
   mode |-> NoMode,
   lives |-> NullLives,
   ready |-> {}]

\* The state after the module has loaded: empty registry, no connection.
\* firstRoom is the first id createRoom hands out.
Boot(firstRoom) ==
  /\ rooms = << >>
  /\ socketToRoom = << >>
  /\ socketToRole = << >>
  /\ roomTimers = {}
  /\ intervals = [r \in RoomIds |-> 0]
  /\ adapter = [r \in RoomIds |-> << >>]
  /\ connected = {}
  /\ nextRoom = firstRoom
  /\ pendingStart = [r \in RoomIds |-> 0]
  /\ pendingDisuse = {}
  /\ everJoined = {}
  /\ last = Idle

\* The scenario: the modes, preferred roles and remainMs values clients
\* send, whether a connection that is bound to a room calls joinRoom again,
\* how many setTimeout(startRound) callbacks a room may have outstanding,
\* and the callbacks that are observed in last.
Env(modes, roles, remains, rejoin, pending, watch) ==
  [modes |-> modes, roles |-> roles, remains |-> remains, rejoin |-> rejoin,
   pending |-> pending, watch |-> watch]

\* One room, every client event, the startRound callbacks observed.
Init ==
  /\ Boot(MaxRooms)
  /\ challenges \in {CatalogMixed, CatalogEmpty}
  /\ env = Env({NoMode, "Easy", "Hard"}, {NoRole, "B"}, {45500}, TRUE, MaxPending,
               {"startRound"})

\* Two rooms, the membership events only.
InitLobby ==
  /\ Boot(MaxRooms - 1)
  /\ challenges = CatalogMixed
  /\ env = Env({NoMode}, {NoRole, "B"}, {45500}, TRUE, MaxPending, {})

\* A Hard game, the callbacks that deduct lives observed.
InitLives ==
  /\ Boot(MaxRooms)
  /\ challenges = CatalogMixed
  /\ env = Env({"Hard"}, {NoRole, "B"}, {45500}, FALSE, MaxPending,
               {"tick", "submitAnswer"})

\* Every callback that finishes or resets a game observed.
InitFinish ==
  /\ Boot(MaxRooms)
  /\ challenges = CatalogMixed
  /\ env = Env({"Hard"}, {NoRole, "B"}, {45500}, TRUE, MaxPending,
               {"tick", "submitAnswer", "startRound", "continueGame"})

\* Answers with several remaining times, submitAnswer observed.
InitScore ==
  /\ Boot(MaxRooms)
  /\ challenges = CatalogMixed
  /\ env = Env({"Hard"}, {NoRole, "B"}, {25500, 45500}, FALSE, MaxPending,
               {"submitAnswer"})

\* A catalog with all three levels, the startRound callbacks observed.
InitLevels ==
  /\ Boot(MaxRooms)
  /\ challenges = CatalogLevels
  /\ env = Env({NoMode, "Hard"}, {NoRole, "B"}, {45500}, FALSE, MaxPending,
               {"startRound"})

\* submitAnswer observed in every mode.
InitAnswers ==
  /\ Boot(MaxRooms)
  /\ challenges \in {CatalogLevels, CatalogMixed}
  /\ env = Env({NoMode, "Easy"}, {NoRole, "B"}, {45500}, TRUE, MaxPending,
               {"submitAnswer"})

\* A Hard game with every callback that can end or restart it observed;
\* each connection joins once.
InitStop ==
  /\ Boot(MaxRooms)
  /\ challenges = CatalogMixed
  /\ env = Env({"Hard"}, {NoRole, "B"}, {45500}, FALSE, MaxPending,
               {"tick", "submitAnswer", "startRound", "continueGame"})

\* The readiness handshake observed.
InitReady ==
  /\ Boot(MaxRooms)
  /\ challenges = CatalogMixed
  /\ env = Env({NoMode, "Easy"}, {NoRole, "B"}, {45500}, TRUE, MaxPending,
               {"playerReady"})

\* A round's timer still running while its startRound is pending: a room
\* may have one more setTimeout(startRound) outstanding.
InitRace ==
  /\ Boot(MaxRooms)
  /\ challenges = CatalogMixed
  /\ env = Env({"Hard"}, {NoRole, "B"}, {45500}, FALSE, MaxPending + 1,
               {"tick", "submitAnswer"})

\* ------------------------------------------------------------- connection
\* A connection id is assigned by the transport and never reused; an id
\* that no state refers to any more is as good as a fresh one.
Unreferenced(s) ==
  /\ ~ Has(socketToRoom, s)
  /\ ~ Has(socketToRole, s)
  /\ \A r \in DOMAIN rooms :
       /\ rooms[r].players.A # s
       /\ rooms[r].players.B # s
       /\ ~ SeqContains(rooms[r].waiting, s)
       /\ s \notin rooms[r].ready

Connect(s) ==
  /\ s \notin connected
  /\ Unreferenced(s)
  /\ connected' = connected \cup {s}
  /\ last' = Last("connection", s, 0, "none", {})
  /\ UNCHANGED << challenges, env, rooms, socketToRoom, socketToRole, roomTimers,
                  intervals, adapter, nextRoom, pendingStart, pendingDisuse,
                  everJoined >>

\* ------------------------------------------------------------- createRoom
CreateRoom(s) ==
  /\ s \in connected
  /\ nextRoom <= MaxRooms
  /\ rooms' = MapSet(rooms, nextRoom, NewRoom)
  /\ pendingDisuse' = pendingDisuse \cup {nextRoom}
  /\ nextRoom' = nextRoom + 1
  /\ last' = Last("createRoom", s, nextRoom, "roomId", {})
  /\ UNCHANGED << challenges, env, socketToRoom, socketToRole, roomTimers,
                  intervals, adapter, connected, pendingStart, everJoined >>

\* The one-shot disuse check scheduled by createRoom.
DisuseCheck(id) ==
  /\ id \in pendingDisuse
  /\ pendingDisuse' = pendingDisuse \ {id}
  /\ rooms' = IF /\ Has(rooms, id)
                 /\ rooms[id].status = "waiting"
                 /\ rooms[id].players.A = NoSock
                 /\ rooms[id].players.B = NoSock
              THEN MapDelete(rooms, id)
              ELSE rooms
  /\ last' = Last("disuseCheck", NoSock, id, "none", {})
  /\ UNCHANGED << challenges, env, socketToRoom, socketToRole, roomTimers,
                  intervals, adapter, connected, nextRoom, pendingStart,
                  everJoined >>

\* --------------------------------------------------------------- joinRoom
AdapterSize(id) == Len(adapter[id])
AdapterJoin(id, s) ==
  [adapter EXCEPT ![id] = IF SeqContains(@, s) THEN @ ELSE Append(@, s)]

JoinRoom(s, id) ==
  /\ s \in connected
  /\ env.rejoin \/ ~ Has(socketToRoom, s)
  /\ UNCHANGED << challenges, env, roomTimers, intervals, connected, nextRoom,
                  pendingStart, pendingDisuse >>
  /\ IF ~ Has(rooms, id)
     THEN /\ last' = Last("joinRoom", s, id, "ROOM_NOT_FOUND", {})
          /\ UNCHANGED << rooms, socketToRoom, socketToRole, adapter,
                          everJoined >>
     ELSE IF AdapterSize(id) >= RoomCapacity
     THEN /\ last' = Last("joinRoom", s, id, "ROOM_FULL", {})
          /\ UNCHANGED << rooms, socketToRoom, socketToRole, adapter,
                          everJoined >>
     ELSE /\ Len(rooms[id].waiting) < MaxWaiting
          /\ rooms' = [rooms EXCEPT ![id].waiting = Append(@, s)]
          /\ adapter' = AdapterJoin(id, s)
          /\ socketToRoom' = MapSet(socketToRoom, s, id)
          /\ socketToRole' = MapDelete(socketToRole, s)
          /\ everJoined' = everJoined \cup {id}
          /\ last' = Last("joinRoom", s, id, "ok",
                          {Bcast("roomUpdate", id, Len(rooms'[id].waiting))})

\* ------------------------------------------------------------------ timers
\* The timer table as a pair: reg = keys of roomTimers, live = number of
\* setInterval timers of each room that have not been cleared.
Timers == [reg |-> roomTimers, live |-> intervals]

stopTimer(T, id) ==
  IF id \in T.reg
    THEN [reg |-> T.reg \ {id}, live |-> [T.live EXCEPT ![id] = @ - 1]]
    ELSE T

\* startTimer without the stopTimer call.
startTimerKeepsOld(T, id) ==
  [reg |-> T.reg \cup {id}, live |-> [T.live EXCEPT ![id] = @ + 1]]

startTimer(T, id) ==
  LET S == stopTimer(T, id)
  IN  [reg |-> S.reg \cup {id}, live |-> [S.live EXCEPT ![id] = @ + 1]]

HasLives(mode) == mode = "Hard" \/ mode = "Normal"
InitialLives(mode) == IF mode = "Hard" THEN HardLives ELSE NormalLives

\* Deduct taking two lives.
DeductTwo(r) ==
  (IF r.lives = NullLives THEN InitialLives(r.mode) ELSE r.lives) - 2

\* lives after one deduction (lazy initialisation included)
Deduct(r) ==
  (IF r.lives = NullLives THEN InitialLives(r.mode) ELSE r.lives) - 1

\* the deduction is explored only down to -MaxDebt
CanDeduct(r) == r.lives = NullLives \/ r.lives > 0 - MaxDebt

\* The setInterval callback of startTimer; expired is (remainMs <= 0).
TimerTick(id, expired) ==
  /\ intervals[id] > 0
  /\ UNCHANGED << challenges, env, socketToRoom, socketToRole, adapter, connected,
                  nextRoom, pendingDisuse, everJoined >>
  /\ IF ~ Has(rooms, id) \/ rooms[id].status # "playing"
     THEN /\ expired = FALSE
          /\ roomTimers' = stopTimer(Timers, id).reg
          /\ intervals' = stopTimer(Timers, id).live
          /\ last' = Last("tick", NoSock, id, "none", {})
          /\ UNCHANGED << rooms, pendingStart >>
     ELSE IF ~ expired
     THEN /\ last' = Last("tick", NoSock, id, "none", {Bcast("timer", id, 1)})
          /\ UNCHANGED << rooms, roomTimers, intervals, pendingStart >>
     ELSE LET rm == rooms[id]
              deduct == HasLives(rm.mode)
              lv == IF deduct THEN Deduct(rm) ELSE rm.lives
              ups == IF deduct THEN {Bcast("livesUpdate", id, lv)} ELSE {}
          IN  /\ deduct => CanDeduct(rm)
              /\ roomTimers' = stopTimer(Timers, id).reg
              /\ intervals' = stopTimer(Timers, id).live
              /\ IF deduct /\ lv <= 0
                 THEN /\ rooms' = [rooms EXCEPT ![id].lives = lv]
                      /\ UNCHANGED pendingStart
                      /\ last' = Last("tick", NoSock, id, "none",
                           {Bcast("timer", id, 0)} \cup ups \cup
                           {Ev("gameFinished", id, NoSock, NoRole, NoIdx,
                               rm.cumulativeScore, "lives")})
                 ELSE /\ pendingStart[id] < env.pending
                      /\ rooms' = [rooms EXCEPT ![id].lives = lv,
                                                ![id].status = "between"]
                      /\ pendingStart' = [pendingStart EXCEPT ![id] = @ + 1]
                      /\ last' = Last("tick", NoSock, id, "none",
                           {Bcast("timer", id, 0)} \cup ups \cup
                           {Bcast("roundTimeout", id, rm.round)})

\* ------------------------------------------------------------- startRound
levelKeys(mode) ==
  CASE mode = "Easy" -> {"easy"}
    [] mode = "Normal" -> {"normal"}
    [] mode = "Hard" -> {"hard"}
    [] OTHER -> {"normal"}

Candidates(r) ==
  {i \in 1 .. Len(challenges) :
     /\ i \notin r.usedIndices
     /\ ToLower(challenges[i].level) \in levelKeys(r.mode)}

\* FinishReset with the score left standing.
FinishResetKeepsScore(r) ==
  [r EXCEPT !.status = "between", !.round = 0,
            !.usedIndices = {}, !.currentIdx = NoIdx, !.currentBig = NoIdx]

\* The room after the round-limit reset of startRound.
FinishReset(r) ==
  [r EXCEPT !.status = "between", !.round = 0, !.cumulativeScore = 0,
            !.usedIndices = {}, !.currentIdx = NoIdx, !.currentBig = NoIdx]

\* gameStarted unicasts of the initial round
GameStarted(r, index) ==
  IF r.round = 0
    THEN {Ev("gameStarted", 0, r.players[role], role, index, 0, "")
            : role \in Roles}
    ELSE {}

\* newQuestion unicasts of sendQuestion
sendQuestion(r) ==
  {Ev("newQuestion", 0, r.players[role], role, r.currentBig, 0, "")
     : role \in Roles}

\* A setTimeout(() => startRound(roomId), 1500) callback fires.
StartRound(id) ==
  /\ pendingStart[id] > 0
  /\ pendingStart' = [pendingStart EXCEPT ![id] = @ - 1]
  /\ UNCHANGED << challenges, env, socketToRoom, socketToRole, adapter, connected,
                  nextRoom, pendingDisuse, everJoined >>
  /\ IF ~ Has(rooms, id)
     THEN /\ last' = Last("startRound", NoSock, id, "none", {})
          /\ UNCHANGED << rooms, roomTimers, intervals >>
     ELSE LET r == rooms[id] IN
       IF r.round >= RoundLimit
       THEN /\ rooms' = [rooms EXCEPT ![id] = FinishReset(r)]
            /\ last' = Last("startRound", NoSock, id, "none",
                 {Ev("gameFinished", id, NoSock, NoRole, NoIdx,
                     r.cumulativeScore, "limit")})
            /\ UNCHANGED << roomTimers, intervals >>
       ELSE IF r.players.A = NoSock \/ r.players.B = NoSock
       THEN /\ rooms' = [rooms EXCEPT ![id].status = "waiting"]
            /\ last' = Last("startRound", NoSock, id, "none",
                            {sys(id, "waitingPartner")})
            /\ UNCHANGED << roomTimers, intervals >>
       ELSE IF Candidates(r) = {}
       THEN /\ last' = Last("startRound", NoSock, id, "none",
                            {sys(id, "noChallenge")})
            /\ UNCHANGED << rooms, roomTimers, intervals >>
       ELSE \E index \in Candidates(r) :
              LET picked == [r EXCEPT !.currentIdx = index,
                                      !.usedIndices = @ \cup {index},
                                      !.currentBig = index]
                  started == GameStarted(picked, index)
                  playing == [picked EXCEPT !.round = @ + 1,
                                            !.status = "playing"]
              IN  IF ~ challenges[index].roles
                  THEN /\ rooms' = [rooms EXCEPT ![id] = playing]
                       /\ last' = LastArg("startRound", NoSock, id, index,
                            "none", started \cup {sys(id, "badData")})
                       /\ UNCHANGED << roomTimers, intervals >>
                  ELSE /\ rooms' = [rooms EXCEPT ![id] =
                                      [playing EXCEPT !.expiresAt = index]]
                       /\ roomTimers' = startTimer(Timers, id).reg
                       /\ intervals' = startTimer(Timers, id).live
                       /\ last' = LastArg("startRound", NoSock, id, index,
                            "none", started \cup sendQuestion(playing))

\* ------------------------------------------------------------ playerReady
\* Mode fixing at the top of the playerReady handler.
FixMode(r, mode) ==
  IF r.mode = NoMode
    THEN LET m == IF mode = NoMode THEN "Normal" ELSE mode
         IN  [r EXCEPT !.mode = m,
                       !.lives = IF m = "Normal" THEN NormalLives
                                 ELSE IF m = "Hard" THEN HardLives
                                 ELSE @]
    ELSE r

\* The slot playerReady assigns, or NoRole when both slots are taken.
AssignRole(r, preferredRole) ==
  IF preferredRole # NoRole /\ r.players[preferredRole] = NoSock
    THEN preferredRole
    ELSE IF r.players.A = NoSock THEN "A"
    ELSE IF r.players.B = NoSock THEN "B"
    ELSE NoRole

ReadyFlag(r, role) == r.players[role] # NoSock /\ r.players[role] \in r.ready

\* bothReady satisfied by one ready player.
bothReadyEither(r) == ReadyFlag(r, "A") \/ ReadyFlag(r, "B")

bothReady(r) == ReadyFlag(r, "A") /\ ReadyFlag(r, "B")

PlayerReady(s, preferredRole, mode) ==
  /\ s \in connected
  /\ UNCHANGED << challenges, env, socketToRoom, roomTimers, intervals, adapter,
                  connected, nextRoom, pendingDisuse, everJoined >>
  /\ IF ~ Has(socketToRoom, s) \/ ~ Has(rooms, socketToRoom[s])
     THEN /\ last' = Last("playerReady", s, 0, "ROOM_NOT_FOUND", {})
          /\ UNCHANGED << rooms, socketToRole, pendingStart >>
     ELSE
       LET id == socketToRoom[s]
           r0 == rooms[id]
           r1 == FixMode(r0, mode)
           e1 == IF r0.mode # NoMode /\ r0.mode # mode
                   THEN {sys(id, "modeUnified")} ELSE {}
           assign == AssignRole(r1, preferredRole)
       IN
       IF ~ Has(socketToRole, s) /\ assign = NoRole
       THEN /\ rooms' = [rooms EXCEPT ![id] = r1]
            /\ last' = Last("playerReady", s, id, "ROLES_FULL", e1)
            /\ UNCHANGED << socketToRole, pendingStart >>
       ELSE
         LET fresh == ~ Has(socketToRole, s)
             role == IF fresh THEN assign ELSE socketToRole[s]
             r2 == IF fresh
                     THEN [r1 EXCEPT !.players[assign] = s,
                                     !.waiting = RemoveFirst(@, s)]
                     ELSE r1
             e2 == IF fresh
                     THEN {Bcast("roomUpdate", id, Len(r2.waiting))} ELSE {}
             \* setReadyStatus
             r3 == [r2 EXCEPT !.ready = @ \cup {s}]
             e3 == {Ev("readyUpdate", id, NoSock, NoRole, NoIdx,
                       (IF ReadyFlag(r3, "A") THEN 1 ELSE 0)
                         + (IF ReadyFlag(r3, "B") THEN 2 ELSE 0), "")}
             start == bothReady(r3) /\ r3.status = "waiting"
         IN  /\ socketToRole' = IF fresh THEN MapSet(socketToRole, s, assign)
                                ELSE socketToRole
             /\ IF start
                THEN /\ pendingStart[id] < env.pending
                     /\ rooms' = [rooms EXCEPT ![id] =
                                    [r3 EXCEPT !.status = "playing"]]
                     /\ pendingStart' = [pendingStart EXCEPT ![id] = @ + 1]
                     /\ last' = Last("playerReady", s, id, "none",
                                     e1 \cup e2 \cup e3)
                ELSE /\ rooms' = [rooms EXCEPT ![id] = r3]
                     /\ UNCHANGED pendingStart
                     /\ last' = Last("playerReady", s, id, "ok",
                                     e1 \cup e2 \cup e3)

\* ----------------------------------------------------------- submitAnswer
\* finalScore of a correct answer, as the handler computes it.
FinalScore(r, remainMs) ==
  LET rawScore == IF challenges[r.currentBig].baseScore # 0
                    THEN challenges[r.currentBig].baseScore
                    ELSE DefaultBaseScore
      remainSec == remainMs \div 1000
      totalSec == r.timeLimitSec
      elapsedSec == totalSec - remainSec
      deducted == rawScore - (PenaltyPerSec * elapsedSec)
  IN  Max(0, deducted)

\* SubmitError without the status test.
SubmitErrorIgnoresStatus(id) ==
  IF ~ Has(rooms, id) THEN "NOT_PLAYING"
  ELSE IF \/ rooms[id].currentBig = NoIdx
          \/ challenges[rooms[id].currentBig].answer.type = "none"
    THEN "NO_QUESTION"
  ELSE "none"

\* The two early returns of the handler.
SubmitError(id) ==
  IF ~ Has(rooms, id) \/ rooms[id].status # "playing" THEN "NOT_PLAYING"
  ELSE IF \/ rooms[id].currentBig = NoIdx
          \/ challenges[rooms[id].currentBig].answer.type = "none"
    THEN "NO_QUESTION"
  ELSE "none"

SubmitAnswer(s, id, answer, remainMs) ==
  /\ s \in connected
  /\ UNCHANGED << challenges, env, socketToRoom, socketToRole, roomTimers,
                  intervals, adapter, connected, nextRoom, pendingDisuse,
                  everJoined >>
  /\ IF SubmitError(id) # "none"
     THEN /\ last' = LastArg("submitAnswer", s, id, remainMs, SubmitError(id),
                             {})
          /\ UNCHANGED << rooms, pendingStart >>
     ELSE
       LET r == rooms[id]
           specimen == challenges[r.currentBig]
       IN
       IF matchAnswer(specimen.answer, answer)
       THEN LET finalScore == FinalScore(r, remainMs)
                total == r.cumulativeScore + finalScore
            IN  /\ pendingStart[id] < env.pending
                /\ rooms' = [rooms EXCEPT ![id].cumulativeScore = total,
                                          ![id].currentBig = NoIdx,
                                          ![id].currentIdx = NoIdx,
                                          ![id].round = @ + 1]
                /\ pendingStart' = [pendingStart EXCEPT ![id] = @ + 1]
                /\ last' = LastArg("submitAnswer", s, id, remainMs, "correct",
                     {Bcast("answerResult", id, finalScore),
                      Bcast("updateScore", id, total)})
       ELSE LET deduct == HasLives(r.mode)
                lv == IF deduct THEN Deduct(r) ELSE r.lives
                ups == IF deduct THEN {Bcast("livesUpdate", id, lv)} ELSE {}
            IN  /\ deduct => CanDeduct(r)
                /\ UNCHANGED pendingStart
                /\ IF deduct /\ lv <= 0
                   THEN /\ rooms' = [rooms EXCEPT ![id].lives = lv,
                                                  ![id].status = "between"]
                        /\ last' = LastArg("submitAnswer", s, id, remainMs, "gameOver",
                             ups \cup
                             {Ev("gameFinished", id, NoSock, NoRole, NoIdx,
                                 r.cumulativeScore, "lives")})
                   ELSE /\ rooms' = [rooms EXCEPT ![id].lives = lv]
                        /\ last' = LastArg("submitAnswer", s, id, remainMs, "wrong",
                             ups \cup
                             {Ev("answerResult", id, NoSock, NoRole, NoIdx,
                                 0, "wrong")})

\* ------------------------------------------------------------- disconnect
\* The transport has already removed the socket from every room when the
\* disconnect handler runs.
AdapterLeaveAll(s) == [id \in RoomIds |-> RemoveAll(adapter[id], s)]

Disconnect(s) ==
  /\ s \in connected
  /\ connected' = connected \ {s}
  /\ adapter' = AdapterLeaveAll(s)
  /\ UNCHANGED << challenges, env, nextRoom, pendingStart, pendingDisuse,
                  everJoined >>
  /\ IF ~ Has(socketToRoom, s)
     THEN /\ last' = Last("disconnect", s, 0, "none", {})
          /\ UNCHANGED << rooms, socketToRoom, socketToRole, roomTimers,
                          intervals >>
     ELSE
       LET id == socketToRoom[s]
           role == IF Has(socketToRole, s) THEN socketToRole[s] ELSE NoRole
       IN  /\ socketToRoom' = MapDelete(socketToRoom, s)
           /\ socketToRole' = MapDelete(socketToRole, s)
           /\ IF ~ Has(rooms, id)
              THEN /\ last' = Last("disconnect", s, id, "none", {})
                   /\ UNCHANGED << rooms, roomTimers, intervals >>
              ELSE
                LET r0 == rooms[id]
                    r1 == [r0 EXCEPT !.waiting = RemoveFirst(@, s)]
                    r2 == IF role # NoRole /\ r1.players[role] = s
                            THEN [r1 EXCEPT !.players[role] = NoSock]
                            ELSE r1
                    lone == r2.players.A = NoSock \/ r2.players.B = NoSock
                    T == IF lone THEN stopTimer(Timers, id) ELSE Timers
                IN  /\ rooms' = [rooms EXCEPT ![id] =
                                   IF lone THEN [r2 EXCEPT !.status = "waiting"]
                                   ELSE r2]
                    /\ roomTimers' = T.reg
                    /\ intervals' = T.live
                    /\ last' = Last("disconnect", s, id, "none",
                         {Bcast("roomUpdate", id, Len(r2.waiting)),
                          sys(id, "partnerLeft")})

\* ----------------------------------------------------------- continueGame
ContinueReset(r, members) ==
  [r EXCEPT !.round = 0, !.cumulativeScore = 0, !.usedIndices = {},
            !.status = "waiting", !.ready = {}, !.mode = NoMode,
            !.lives = NullLives, !.waiting = members]

ContinueGame(s, id) ==
  /\ s \in connected
  /\ UNCHANGED << challenges, env, socketToRoom, socketToRole, roomTimers,
                  intervals, adapter, connected, nextRoom, pendingStart,
                  pendingDisuse, everJoined >>
  /\ IF ~ Has(rooms, id)
     THEN /\ last' = Last("continueGame", s, id, "none", {})
          /\ UNCHANGED rooms
     ELSE /\ rooms' = [rooms EXCEPT ![id] = ContinueReset(@, adapter[id])]
          /\ last' = Last("continueGame", s, id, "none",
               {Bcast("roomReset", id, 0),
                Bcast("roomUpdate", id, Len(adapter[id])),
                Bcast("readyUpdate", id, 0)})

Next ==
  \/ \E s \in Sockets : Connect(s)
  \/ \E s \in Sockets : CreateRoom(s)
  \/ \E id \in RoomIds : DisuseCheck(id)
  \/ \E s \in Sockets, id \in RoomIds : JoinRoom(s, id)
  \/ \E s \in Sockets, pr \in env.roles, m \in env.modes :
       PlayerReady(s, pr, m)
  \/ \E s \in Sockets, id \in RoomIds, a \in AnswerInputs,
        ms \in env.remains : SubmitAnswer(s, id, a, ms)
  \/ \E s \in Sockets : Disconnect(s)
  \/ \E s \in Sockets, id \in RoomIds : ContinueGame(s, id)
  \/ \E id \in RoomIds, expired \in BOOLEAN : TimerTick(id, expired)
  \/ \E id \in RoomIds : StartRound(id)

NextLobby ==
  \/ \E s \in Sockets : Connect(s)
  \/ \E s \in Sockets : CreateRoom(s)
  \/ \E s \in Sockets, id \in RoomIds : JoinRoom(s, id)
  \/ \E s \in Sockets, pr \in env.roles, m \in env.modes :
       PlayerReady(s, pr, m)
  \/ \E s \in Sockets : Disconnect(s)
  \/ \E s \in Sockets, id \in RoomIds : ContinueGame(s, id)

Spec == Init /\ [][Next]_vars
SpecLobby == InitLobby /\ [][NextLobby]_vars
SpecLives == InitLives /\ [][Next]_vars
SpecFinish == InitFinish /\ [][Next]_vars
SpecScore == InitScore /\ [][Next]_vars
SpecLevels == InitLevels /\ [][Next]_vars
SpecAnswers == InitAnswers /\ [][Next]_vars
SpecStop == InitStop /\ [][Next]_vars
SpecReady == InitReady /\ [][Next]_vars
SpecRace == InitRace /\ [][Next]_vars

\* ================================================================= claims
Live == (DOMAIN rooms) \cap (DOMAIN rooms')
Finished(l, id, why) ==
  \E e \in l.emits : e.type = "gameFinished" /\ e.room = id /\ e.msg = why
Continued(l, id) == l.op = "continueGame" /\ l.room = id
\* catalog indices of the level the mode maps to
Eligible(mode) ==
  {i \in 1 .. Len(challenges) : ToLower(challenges[i].level) \in levelKeys(mode)}

\* C1: every connection id held in a role slot is bound (socketToRoom,
\* socketToRole) to exactly that room and role, and no connection id is held
\* in two role slots, of one room or of two.
C1_SlotsBound ==
  \A r \in DOMAIN rooms : \A role \in Roles :
    LET s == rooms[r].players[role] IN
    s # NoSock =>
      /\ Has(socketToRoom, s) /\ socketToRoom[s] = r
      /\ Has(socketToRole, s) /\ socketToRole[s] = role
      /\ \A r2 \in DOMAIN rooms : \A role2 \in Roles :
           rooms[r2].players[role2] = s => r2 = r /\ role2 = role

\* C2: a gameStarted / newQuestion view of role X goes to the occupant of
\* slot X only, and no connection receives both views of one challenge.
C2_RoleViews ==
  LET views == {e \in last.emits : e.type \in {"gameStarted", "newQuestion"}}
  IN  /\ \A e \in views :
           Has(rooms, last.room) /\ e.sock = rooms[last.room].players[e.role]
      /\ \A e1 \in views : \A e2 \in views :
           e1.sock = e2.sock /\ e1.idx = e2.idx => e1.role = e2.role

\* C3: lives is null or >= 0, and the lives-exhausted gameFinished is
\* emitted exactly on the step that takes lives from 1 to 0, with the
\* cumulative score held before the deduction.
C3_LivesExhaustion ==
  [][\A r \in Live :
       /\ rooms'[r].lives = NullLives \/ rooms'[r].lives >= 0
       /\ Finished(last', r, "lives") =>
            /\ rooms[r].lives = 1 /\ rooms'[r].lives = 0
            /\ \A e \in last'.emits :
                 e.type = "gameFinished" => e.val = rooms[r].cumulativeScore
       /\ rooms[r].lives = 1 /\ rooms'[r].lives = 0 =>
            Finished(last', r, "lives")]_vars

C5_ScoreOfChallenge ==
  [][last'.op = "submitAnswer" /\ last'.ack = "correct" =>
       LET r == rooms[last'.room]
           c == challenges[r.currentBig]
           score == Max(0, c.baseScore
                             - (c.timeLimitSec - (last'.arg \div 1000)))
       IN  /\ \E e \in last'.emits : e.type = "answerResult" /\ e.val = score
           /\ rooms'[last'.room].cumulativeScore = r.cumulativeScore + score
    ]_vars

\* C6: startRound never selects an index that is in usedIndices, records the
\* index it selects, usedIndices holds only indices of the mode's level, and
\* usedIndices only grows until it is reset to empty.
C6_SelectionAvoidsUsed ==
  [][\A r \in Live :
       /\ last'.op = "startRound" /\ last'.room = r /\ last'.arg # NoIdx =>
            /\ last'.arg \notin rooms[r].usedIndices
            /\ last'.arg \in rooms'[r].usedIndices
       /\ rooms'[r].usedIndices \subseteq Eligible(rooms'[r].mode)
       /\ \/ rooms[r].usedIndices \subseteq rooms'[r].usedIndices
          \/ rooms'[r].usedIndices = {}]_vars

\* C7: startRound with both players present, round below the limit and all
\* eligible indices used resets usedIndices, selects a challenge and
\* dispatches it.
C7_ExhaustionResets ==
  [][last'.op = "startRound" /\ Has(rooms, last'.room) =>
       LET r == rooms[last'.room] IN
       ( /\ r.round < RoundLimit
         /\ r.players.A # NoSock /\ r.players.B # NoSock
         /\ Eligible(r.mode) # {}
         /\ Eligible(r.mode) \subseteq r.usedIndices )
       => /\ last'.arg # NoIdx
          /\ rooms'[last'.room].status = "playing"
          /\ rooms'[last'.room].currentBig # NoIdx]_vars

\* C8: the disuse check removes a room nobody ever joined and keeps a room
\* on which some joinRoom succeeded.
C8_JoinedRoomSurvives ==
  [][\A r \in pendingDisuse \ pendingDisuse' :
       Has(rooms, r) =>
         IF r \in everJoined THEN Has(rooms', r) ELSE ~ Has(rooms', r)]_vars

\* C9: when a connection held in a role slot of a playing room disconnects,
\* the room is kept, has no live timer, has status waiting, and the slot is
\* empty.
C9_DisconnectStopsRound ==
  [][\A s \in connected \ connected' :
       \A r \in DOMAIN rooms : \A role \in Roles :
         rooms[r].players[role] = s /\ rooms[r].status = "playing" =>
           /\ Has(rooms', r)
           /\ rooms'[r].status = "waiting"
           /\ rooms'[r].players[role] = NoSock
           /\ intervals'[r] = 0 /\ r \notin roomTimers']_vars

\* C10: submitAnswer on a missing or non-playing room is acknowledged
\* NOT_PLAYING, on a playing room without a challenge or without an answer
\* specification NO_QUESTION; either way nothing changes, nothing is emitted
\* and no startRound is scheduled.
C10_RejectedSubmitInert ==
  [][last'.op = "submitAnswer" =>
       LET id == last'.room
           notPlaying == ~ Has(rooms, id) \/ rooms[id].status # "playing"
           noQuestion ==
             /\ ~ notPlaying
             /\ \/ rooms[id].currentBig = NoIdx
                \/ challenges[rooms[id].currentBig].answer.type = "none"
       IN  /\ notPlaying => last'.ack = "NOT_PLAYING"
           /\ noQuestion => last'.ack = "NO_QUESTION"
           /\ last'.ack \in {"NOT_PLAYING", "NO_QUESTION"} =>
                /\ notPlaying \/ noQuestion
                /\ last'.emits = {}
                /\ rooms' = rooms
                /\ roomTimers' = roomTimers /\ intervals' = intervals
                /\ pendingStart' = pendingStart]_vars

\* C10 witness: a submitAnswer to a playing room whose challenge has no
\* answer specification has just been acknowledged NO_QUESTION.
C10_Witness ==
  /\ last.op = "submitAnswer" /\ last.ack = "NO_QUESTION"
  /\ Has(rooms, last.room)
  /\ rooms[last.room].status = "playing"
  /\ rooms[last.room].currentBig # NoIdx

\* C11: a room whose status is playing has a current challenge and an
\* expiresAt deadline that was set for that challenge.
C11_PlayingHasChallenge ==
  \A r \in DOMAIN rooms :
    rooms[r].status = "playing" =>
      /\ rooms[r].currentBig # NoIdx
      /\ rooms[r].expiresAt = rooms[r].currentBig

\* C12: a startRound callback that finds the room waiting, or playing with
\* an active challenge, selects no challenge, leaves round, usedIndices and
\* status as they are and dispatches no question.
C12_StartRoundRevalidates ==
  [][last'.op = "startRound" /\ Has(rooms, last'.room) =>
       LET r == rooms[last'.room]
           q == rooms'[last'.room]
           stale == \/ r.status = "waiting"
                    \/ r.status = "playing" /\ r.currentBig # NoIdx
       IN  stale =>
             /\ last'.arg = NoIdx
             /\ q.round = r.round
             /\ q.usedIndices = r.usedIndices
             /\ q.status = r.status
             /\ \A e \in last'.emits :
                  e.type \notin {"gameStarted", "newQuestion"}]_vars

\* lives of the room have been exhausted (only continueGame clears this)
LivesOut(r) == r.lives # NullLives /\ r.lives <= 0

\* C13: once lives are exhausted, until continueGame no startRound is
\* scheduled or selects a challenge, no submitAnswer is accepted, and round,
\* cumulativeScore and lives do not change.
C13_StoppedAfterLivesOut ==
  [][\A r \in Live :
       LivesOut(rooms[r]) /\ ~ Continued(last', r) =>
         /\ rooms'[r].round = rooms[r].round
         /\ rooms'[r].cumulativeScore = rooms[r].cumulativeScore
         /\ rooms'[r].lives = rooms[r].lives
         /\ pendingStart'[r] <= pendingStart[r]
         /\ ~ ( /\ last'.op = "startRound" /\ last'.room = r
                /\ last'.arg # NoIdx )
         /\ ~ ( /\ last'.op = "submitAnswer" /\ last'.room = r
                /\ last'.ack \in {"correct", "wrong", "gameOver"} )]_vars

\* C14: after a gameFinished emission (round limit or lives exhausted) the
\* room's status is waiting.
C14_FinishedIsWaiting ==
  [][\A r \in Live :
       Finished(last', r, "limit") \/ Finished(last', r, "lives") =>
         rooms'[r].status = "waiting"]_vars

\* C15: playerReady sets status playing and schedules one startRound exactly
\* when, after its assignment and ready mark, both slots are occupied, both
\* occupants are ready and the status was waiting; otherwise it leaves the
\* status alone and schedules nothing.
C15_HandshakeStarts ==
  [][last'.op = "playerReady" /\ last'.room # 0 =>
       LET id == last'.room
           r == rooms[id]
           q == rooms'[id]
           complete == /\ q.players.A # NoSock /\ q.players.B # NoSock
                       /\ q.players.A \in q.ready /\ q.players.B \in q.ready
                       /\ r.status = "waiting"
       IN  IF complete
             THEN /\ q.status = "playing"
                  /\ pendingStart' = [pendingStart EXCEPT ![id] = @ + 1]
             ELSE /\ q.status = r.status
                  /\ pendingStart' = pendingStart]_vars

\* C15 witness: the playerReady that completed a handshake has just set the
\* room playing with a startRound pending.
C15_Witness ==
  /\ last.op = "playerReady" /\ last.ack = "none"
  /\ Has(rooms, last.room)
  /\ rooms[last.room].status = "playing"
  /\ rooms[last.room].players.A # rooms[last.room].players.B
  /\ pendingStart[last.room] = 1

\* C16: a wrong submitAnswer that does not exhaust lives takes exactly one
\* life in Normal/Hard mode (none in Easy mode) and changes nothing else:
\* room fields, timer and pending startRound callbacks stay as they are.
C16_WrongAnswerFrame ==
  [][last'.op = "submitAnswer" /\ last'.ack = "wrong" =>
       LET id == last'.room
           r == rooms[id]
           lv == IF r.mode \in {"Normal", "Hard"}
                   THEN (IF r.lives = NullLives
                           THEN (IF r.mode = "Hard" THEN HardLives
                                 ELSE NormalLives)
                           ELSE r.lives) - 1
                   ELSE r.lives
       IN  /\ r.status = "playing"
           /\ rooms' = [rooms EXCEPT ![id].lives = lv]
           /\ lv = NullLives \/ lv > 0
           /\ roomTimers' = roomTimers /\ intervals' = intervals
           /\ pendingStart' = pendingStart]_vars

\* C16 witness: a wrong answer in a Normal game has just taken one of the
\* five lives and the round is still being played.
C16_Witness ==
  /\ last.op = "submitAnswer" /\ last.ack = "wrong"
  /\ Has(rooms, last.room)
  /\ rooms[last.room].mode = "Normal"
  /\ rooms[last.room].lives = NormalLives - 1
  /\ rooms[last.room].status = "playing"
  /\ rooms[last.room].currentBig # NoIdx

\* C17: a room has one live interval timer when it has a registered handle
\* and none otherwise.
C17_OneLiveTimer ==
  \A r \in RoomIds : intervals[r] = IF r \in roomTimers THEN 1 ELSE 0

\* C17 witness: startRound has dispatched a later round's question after a
\* correct answer and the room has its one registered timer.
C17_Witness ==
  /\ last.op = "startRound" /\ last.arg # NoIdx
  /\ Has(rooms, last.room)
  /\ rooms[last.room].round > 1
  /\ rooms[last.room].cumulativeScore > 0
  /\ last.room \in roomTimers
  /\ intervals[last.room] = 1

\* C18: a timer tick that directly follows the correct answer of its room
\* takes no life, emits neither roundTimeout nor gameFinished and schedules
\* no startRound.
C18_TimerInertAfterCorrect ==
  [][ ( /\ last.op = "submitAnswer" /\ last.ack = "correct"
        /\ last'.op = "tick" /\ last'.room = last.room
        /\ Has(rooms, last.room) ) =>
       /\ rooms'[last.room].lives = rooms[last.room].lives
       /\ pendingStart' = pendingStart
       /\ \A e \in last'.emits :
            e.type \notin {"livesUpdate", "roundTimeout", "gameFinished"}]_vars

\* C19: round equals the number of challenges dispatched since the last
\* reset (the size of usedIndices), and the round-limit gameFinished is
\* emitted after exactly RoundLimit dispatches.
C19_RoundCountsDispatches ==
  [][\A r \in Live :
       /\ rooms'[r].round = Cardinality(rooms'[r].usedIndices)
       /\ Finished(last', r, "limit") =>
            Cardinality(rooms[r].usedIndices) = RoundLimit]_vars

\* the connection is not bound to the room: no slot, not in waiting
NonMember(s, id) ==
  /\ ~ Has(socketToRoom, s) \/ socketToRoom[s] # id
  /\ rooms[id].players.A # s /\ rooms[id].players.B # s
  /\ ~ SeqContains(rooms[id].waiting, s)

\* C20: a submitAnswer or continueGame sent by a connection that is not
\* bound to the room it names leaves the room's status, round,
\* cumulativeScore, lives, mode, readiness and usedIndices unchanged.
C20_NonMemberInert ==
  [][ ( /\ last'.op \in {"submitAnswer", "continueGame"}
        /\ Has(rooms, last'.room)
        /\ NonMember(last'.sock, last'.room) ) =>
       LET r == rooms[last'.room]
           q == rooms'[last'.room]
       IN  /\ q.status = r.status /\ q.round = r.round
           /\ q.cumulativeScore = r.cumulativeScore
           /\ q.lives = r.lives /\ q.mode = r.mode
           /\ q.ready = r.ready /\ q.usedIndices = r.usedIndices]_vars

====
